---- MODULE Spec2Model ----
(***************************************************************************)
(* Model of mdcrypt's Hamming error-correction codec                       *)
(* (src/src/algorithms/hamming.rs): HammingECC::new and                    *)
(* <HammingECC as TryEncrypt>::try_encrypt, followed by a bit-flipping     *)
(* channel and the decode operation that the documentation promises.       *)
(*                                                                         *)
(* Bits are BOOLEANs as in the source (BitVec of bool).  Position p of a   *)
(* block or of a flat bit stream is element p + 1 of the sequence.         *)
(*                                                                         *)
(* usize values are kept as the residue modulo 2^UsizeBits of least        *)
(* magnitude (two's complement): a negative number x stands for the        *)
(* unsigned value 2^UsizeBits + x.  Wrapping addition and subtraction are  *)
(* then plain integer addition and subtraction as long as the magnitudes   *)
(* stay small, which they do for every input drawn below.                  *)
(***************************************************************************)
EXTENDS Integers, Sequences, FiniteSets

\* ---------------------------------------------------------------- bounds
\* longest message handed to try_encrypt
MaxMsgLen == 4

\* ------------------------------------------------------- program constants
\* width of usize, the type of `1 << size_field_bits` in the size check and
\* of `1usize << blk_log_size`
UsizeBits == 64
\* width of i32, the type the unsuffixed literal in the format! argument
\* `(1 << self.size_field_bits) - 1` falls back to
I32Bits == 32
\* i32::MAX
I32Max == 2147483647

\* ------------------------------------------------------------ input sets
\* u8 values offered to HammingECC::new as blk_log_size: below the
\* threshold, ordinary, and at/above the width of usize
BlkLogSizes == {2, 3, 4, 64, 65}
\* u8 values offered to HammingECC::new as size_field_bits
SizeFieldBits == {1, 2, 3, 64, 65}
\* two of the two-byte inputs of tests::into_ok, each repeated cyclically to any length
SampleBytes == << <<150, 54>>, <<114, 104>> >>

SampleMessage(k, n) == [i \in 1..n |-> SampleBytes[k][((i - 1) % 2) + 1]]

Messages == {SampleMessage(k, n) : k \in 1..Len(SampleBytes), n \in 0..MaxMsgLen}

\* ------------------------------------------------------- integer helpers
Xor(a, b) == a # b

\* a sequence given by a rule, evaluated into its elements once
Collect(s) == s \o << >>

\* bit k of the non-negative integer n; every n in the model is below 2^31
TestBit(n, k) == k < 31 /\ (n \div (2 ^ k)) % 2 = 1

RECURSIVE BitAnd(_, _)
\* a & b on non-negative integers
BitAnd(a, b) ==
    IF a = 0 \/ b = 0 THEN 0
    ELSE (IF a % 2 = 1 /\ b % 2 = 1 THEN 1 ELSE 0) + 2 * BitAnd(a \div 2, b \div 2)

RECURSIVE count_ones(_)
\* usize::count_ones
count_ones(n) == IF n = 0 THEN 0 ELSE (n % 2) + count_ones(n \div 2)

\* `1 << k` on usize with overflow checks off: the shift amount is masked
WrappingShl(k) == 2 ^ (k % UsizeBits)

\* unsigned division x / y on usize residues (y # 0)
UDiv(x, y) ==
    IF y > 0
    THEN IF x >= 0 THEN x \div y ELSE ((2 ^ UsizeBits) + x) \div y
    ELSE IF x < 0 /\ x >= y THEN 1 ELSE 0

\* Iterator::take(n) on a sequence, n a usize residue
Take(s, n) ==
    IF n < 0 \/ n >= Len(s) THEN s ELSE SubSeq(s, 1, n)

\* what is left of the iterator after take(n) was drained
Drop(s, n) ==
    IF n < 0 \/ n >= Len(s) THEN << >> ELSE SubSeq(s, n + 1, Len(s))

\* ------------------------------------------------------ HammingECC::new
NoCodec == [some |-> FALSE, blk_log_size |-> 0, size_field_bits |-> 0]

\* a variant of new whose threshold on blk_log_size is strict
HammingNewStrict(blk_log_size, size_field_bits) ==
    IF blk_log_size > 3 /\ size_field_bits >= 2
    THEN [some |-> TRUE, blk_log_size |-> blk_log_size,
          size_field_bits |-> size_field_bits]
    ELSE NoCodec

HammingNew(blk_log_size, size_field_bits) ==
    IF blk_log_size >= 3 /\ size_field_bits >= 2
    THEN [some |-> TRUE, blk_log_size |-> blk_log_size,
          size_field_bits |-> size_field_bits]
    ELSE NoCodec

\* ------------------------------------------------- results of try_encrypt
\* kind "Ok" carries the returned bytes and, for reference, the local `blocks`
\* they were serialized from; kind "Err" carries the two numbers of the
\* error message; kind "Panic" is a panic of the call
Panic == [kind |-> "Panic", bytes |-> << >>, blocks |-> << >>, max |-> 0, actual |-> 0]
NoResult == [kind |-> "None", bytes |-> << >>, blocks |-> << >>, max |-> 0, actual |-> 0]
OkResult(bytes, blocks) ==
    [kind |-> "Ok", bytes |-> bytes, blocks |-> blocks, max |-> 0, actual |-> 0]
ErrResult(max, actual) ==
    [kind |-> "Err", bytes |-> << >>, blocks |-> << >>, max |-> max, actual |-> actual]

\* ------------------------------------------------ try_encrypt, step by step
\* sz_field_bit_iter: bit i of data_byte_len for i = size_field_bits - 1
\* down to 0, each tested with the mask `1 << i` (the shift amount wraps at
\* UsizeBits when overflow checks are off; with them on, size_field_bits is
\* below UsizeBits once the size check has passed)
SizeFieldBitIter(size_field_bits, data_byte_len) ==
    Collect([k \in 1..size_field_bits |->
        TestBit(data_byte_len, (size_field_bits - k) % UsizeBits)])

\* u8::reverse_bits
reverse_bits(byte) ==
    LET bit(i) == (byte \div (2 ^ i)) % 2
    IN bit(7) + 2 * bit(6) + 4 * bit(5) + 8 * bit(4)
       + 16 * bit(3) + 32 * bit(2) + 64 * bit(1) + 128 * bit(0)

\* the closure of data_bit_iter: bits 0..7 of the reversed byte, in order
ByteBits(byte) ==
    LET reversed_byte == reverse_bits(byte)
    IN Collect([k \in 1..8 |-> BitAnd(reversed_byte, 2 ^ (k - 1)) # 0])

RECURSIVE DataBitIter(_)
\* data_bit_iter: flat_map of ByteBits over the message
DataBitIter(msg) ==
    IF msg = << >> THEN << >> ELSE ByteBits(Head(msg)) \o DataBitIter(Tail(msg))

\* encode_bit_iter = sz_field_bit_iter.chain(data_bit_iter)
EncodeBitIter(size_field_bits, msg) ==
    SizeFieldBitIter(size_field_bits, Len(msg)) \o DataBitIter(msg)

RECURSIVE FillBlock(_, _, _)
\* `for bit_idx in 0..blk_bits_total { block.push(..) }`: positions from
\* bit_idx on, fed from what is left of blk_data_iter
FillBlock(bit_idx, blk_bits_total, blk_data) ==
    IF bit_idx >= blk_bits_total THEN << >>
    ELSE IF count_ones(bit_idx) <= 1
         THEN <<FALSE>> \o FillBlock(bit_idx + 1, blk_bits_total, blk_data)
         ELSE IF blk_data = << >>
              THEN <<FALSE>> \o FillBlock(bit_idx + 1, blk_bits_total, blk_data)
              ELSE <<Head(blk_data)>>
                   \o FillBlock(bit_idx + 1, blk_bits_total, Tail(blk_data))

\* a variant whose range stops one position early
ParityGroupShort(mask, blk_bits_total) ==
    {b \in 0..(blk_bits_total - 2) : BitAnd(b, mask) = mask}

\* the positions b of 0..blk_bits_total with (b & mask) == mask
ParityGroup(mask, blk_bits_total) ==
    {b \in 0..(blk_bits_total - 1) : BitAnd(b, mask) = mask}

RECURSIVE XorFrom(_, _, _)
\* parity of the bits of block at the positions of S from p on
XorFrom(block, S, p) ==
    IF p >= Len(block) THEN FALSE
    ELSE Xor(p \in S /\ block[p + 1], XorFrom(block, S, p + 1))

\* reduce(|parity, bit| parity ^ bit) over the bits of block at positions S
XorOver(block, S) == XorFrom(block, S, 0)

RECURSIVE SetEcc(_, _, _, _)
\* `for i in 0..self.blk_log_size { .. block.set(mask, ecc_bit) }` from i on.
\* The result is the block, or <<>> when reduce(..).unwrap() meets an empty
\* group and panics.
SetEcc(block, i, blk_log_size, blk_bits_total) ==
    IF i >= blk_log_size THEN block
    ELSE LET mask == WrappingShl(i)
             group == ParityGroup(mask, blk_bits_total)
         IN IF group = {} THEN << >>
            ELSE SetEcc([block EXCEPT ![mask + 1] = XorOver(block, group)],
                        i + 1, blk_log_size, blk_bits_total)

\* a variant that folds the payload positions only, not the parity bits set
\* just before
SetGlobalParityPayloadOnly(block) ==
    [block EXCEPT ![1] =
        XorOver(block, {p \in 0..(Len(block) - 1) : count_ones(p) > 1})]

\* a variant that leaves position 0 as it was pushed
SetGlobalParityOmitted(block) == block

\* block.set(0, block.iter().reduce(|parity, bit| parity ^ bit).unwrap())
SetGlobalParity(block) ==
    [block EXCEPT ![1] = XorOver(block, 0..(Len(block) - 1))]

\* one pass of `for block in blocks.iter_mut()`: <<>> if it panics
BuildBlock(blk_data, blk_log_size, blk_bits_total) ==
    LET filled == FillBlock(0, blk_bits_total, blk_data)
        withEcc == SetEcc(filled, 0, blk_log_size, blk_bits_total)
    IN IF withEcc = << >> THEN << >> ELSE SetGlobalParity(withEcc)

\* the blocks, in order; block j takes the next blk_bits_data bits of
\* encode_bit_iter, which the blocks before it have advanced
BuildBlocks(n, bits, blk_bits_data, blk_log_size, blk_bits_total) ==
    Collect([j \in 1..n |->
        BuildBlock(Take(Drop(bits, (j - 1) * blk_bits_data), blk_bits_data),
                   blk_log_size, blk_bits_total)])

\* a variant with the two loops exchanged: block after block
InterleaveBlockMajor(blocks, blk_bits_total) ==
    LET n == Len(blocks)
    IN Collect([f \in 1..(blk_bits_total * n) |->
            blocks[((f - 1) \div blk_bits_total) + 1][((f - 1) % blk_bits_total) + 1]])

\* a variant that serializes the blocks in reverse order within each position
InterleaveReversed(blocks, blk_bits_total) ==
    LET n == Len(blocks)
    IN Collect([f \in 1..(blk_bits_total * n) |->
            blocks[n - ((f - 1) % n)][((f - 1) \div n) + 1]])

\* `for bit_idx in 0..blk_bits_total { for block in &blocks { result.push } }`
Interleave(blocks, blk_bits_total) ==
    LET n == Len(blocks)
    IN Collect([f \in 1..(blk_bits_total * n) |->
            blocks[((f - 1) % n) + 1][((f - 1) \div n) + 1]])

\* BitVec::to_bytes: most significant bit first, zero padding in the last byte
ToBytes(bits) ==
    LET nbytes == (Len(bits) + 7) \div 8
        bit(f) == IF f <= Len(bits) /\ bits[f] THEN 1 ELSE 0
    IN Collect([k \in 1..nbytes |->
            128 * bit(8 * k - 7) + 64 * bit(8 * k - 6) + 32 * bit(8 * k - 5)
            + 16 * bit(8 * k - 4) + 8 * bit(8 * k - 3) + 4 * bit(8 * k - 2)
            + 2 * bit(8 * k - 1) + bit(8 * k)])

\* ------------------------------------------------------------ try_encrypt
\* the size check `data_byte_len >= (1 << self.size_field_bits)`, the shift
\* already evaluated
MessageTooLarge(data_byte_len, capacity) == data_byte_len >= capacity

\* the Err branch: format! evaluates `(1 << self.size_field_bits) - 1` on
\* i32 (shift overflow from I32Bits on, subtraction overflow at I32Bits - 1)
TooLargeError(overflow_checks, size_field_bits, data_byte_len) ==
    IF overflow_checks /\ size_field_bits >= I32Bits - 1 THEN Panic
    ELSE ErrResult(IF size_field_bits % I32Bits = I32Bits - 1
                   THEN I32Max
                   ELSE (2 ^ (size_field_bits % I32Bits)) - 1,
                   data_byte_len)

\* blk_count = (data_bit_len + size_field_bits + blk_bits_data - 1) / blk_bits_data
BlkCount(data_bit_len, size_field_bits, blk_bits_data) ==
    UDiv(data_bit_len + size_field_bits + blk_bits_data - 1, blk_bits_data)

\* the body of try_encrypt after the size check
EncodeBlocks(overflow_checks, self, data_to_encrypt) ==
    LET data_bit_len == Len(data_to_encrypt) * 8
        blk_bits_total == WrappingShl(self.blk_log_size)
        blk_bits_ecc == 1 + self.blk_log_size
        blk_bits_data == blk_bits_total - blk_bits_ecc
    IN IF overflow_checks /\ self.blk_log_size >= UsizeBits THEN Panic
       ELSE IF overflow_checks /\ blk_bits_total < blk_bits_ecc THEN Panic
       ELSE IF blk_bits_data = 0 THEN Panic
       ELSE LET blk_count ==
                    BlkCount(data_bit_len, self.size_field_bits, blk_bits_data)
                blocks ==
                    BuildBlocks(blk_count,
                                EncodeBitIter(self.size_field_bits, data_to_encrypt),
                                blk_bits_data, self.blk_log_size, blk_bits_total)
            IN IF \E j \in 1..blk_count : blocks[j] = << >> THEN Panic
               ELSE OkResult(ToBytes(Interleave(blocks, blk_bits_total)), blocks)

\* <HammingECC as TryEncrypt>::try_encrypt.  overflow_checks is the build
\* profile: with it an overflowing shift or subtraction panics, without it
\* the shift amount is masked and the subtraction wraps.
TryEncrypt(overflow_checks, self, data_to_encrypt) ==
    LET data_byte_len == Len(data_to_encrypt)
    IN IF overflow_checks /\ self.size_field_bits >= UsizeBits THEN Panic
       ELSE IF MessageTooLarge(data_byte_len, WrappingShl(self.size_field_bits))
            THEN TooLargeError(overflow_checks, self.size_field_bits, data_byte_len)
            ELSE EncodeBlocks(overflow_checks, self, data_to_encrypt)

\* ------------------------------------------------------------------ decode
\* The decode direction is documented on HammingECC but has no
\* implementation in the repository; it is modelled from section 4.1 of the
\* specification.
DecodeOk(bytes) == [kind |-> "Ok", bytes |-> bytes, index |-> 0]
DecodeErr(kind, index) == [kind |-> kind, bytes |-> << >>, index |-> index]
NoDecode == [kind |-> "None", bytes |-> << >>, index |-> 0]

\* step 1: bytes to a flat bit sequence, most significant bit first
FromBytes(bytes) ==
    Collect([f \in 1..(8 * Len(bytes)) |->
        (bytes[((f - 1) \div 8) + 1] \div (2 ^ (7 - ((f - 1) % 8)))) % 2 = 1])

\* step 2: bit i of block j is read from flat position i * block_count + j
Deinterleave(bits, block_bits_total, block_count) ==
    Collect([j \in 1..block_count |->
        Collect([i \in 1..block_bits_total |-> bits[(i - 1) * block_count + j]])])

RECURSIVE Syndrome(_, _)
\* step 3: the composition e of the power-of-two positions 2^i, i < n,
\* whose group has odd parity
Syndrome(block, n) ==
    IF n = 0 THEN 0
    ELSE Syndrome(block, n - 1)
         + (IF XorOver(block, ParityGroup(2 ^ (n - 1), Len(block)))
            THEN 2 ^ (n - 1) ELSE 0)

\* step 3: overall parity of the block
OverallParity(block) == XorOver(block, 0..(Len(block) - 1))

\* step 3: the decision table; a block, or <<>> for an uncorrectable one
CorrectBlock(block, block_log_size) ==
    LET e == Syndrome(block, block_log_size)
        mismatch == OverallParity(block)
    IN IF ~mismatch /\ e = 0 THEN block
       ELSE IF mismatch THEN [block EXCEPT ![e + 1] = ~block[e + 1]]
       ELSE << >>

RECURSIVE PayloadOf(_, _)
\* step 4: the bits of a block at the positions from p on that are neither 0
\* nor a power of two
PayloadOf(block, p) ==
    IF p >= Len(block) THEN << >>
    ELSE (IF count_ones(p) <= 1 THEN << >> ELSE <<block[p + 1]>>)
         \o PayloadOf(block, p + 1)

RECURSIVE PayloadOfAll(_, _)
\* step 4: the payload of the first n blocks, concatenated
PayloadOfAll(blocks, n) ==
    IF n = 0 THEN << >>
    ELSE PayloadOfAll(blocks, n - 1) \o PayloadOf(blocks[n], 0)

\* step 5: the number the first n bits of the payload spell, most
\* significant bit first, if it is at most cap; cap + 1 for every larger one
DeclaredLength(payload, n, cap) ==
    LET spells(v) == \A k \in 1..n : payload[k] = TestBit(v, n - k)
    IN IF \E v \in 0..cap : spells(v)
       THEN CHOOSE v \in 0..cap : spells(v)
       ELSE cap + 1

\* step 5: the byte eight bits spell, most significant bit first
ByteOf(bits) ==
    LET bit(k) == IF bits[k] THEN 1 ELSE 0
    IN 128 * bit(1) + 64 * bit(2) + 32 * bit(3) + 16 * bit(4)
       + 8 * bit(5) + 4 * bit(6) + 2 * bit(7) + bit(8)

\* steps 5 and 6: the declared length L, then exactly L bytes
ExtractMessage(payload, length_field_bits) ==
    IF Len(payload) < length_field_bits THEN DecodeErr("Truncated", 0)
    ELSE LET rest == SubSeq(payload, length_field_bits + 1, Len(payload))
             L == DeclaredLength(payload, length_field_bits, Len(rest) \div 8)
         IN IF L * 8 > Len(rest) THEN DecodeErr("Truncated", 0)
            ELSE DecodeOk([k \in 1..L |-> ByteOf(SubSeq(rest, 8 * k - 7, 8 * k))])

\* decode of section 4.1
Decode(self, encoded) ==
    IF encoded = << >> THEN DecodeErr("Truncated", 0)
    ELSE
    LET bits == FromBytes(encoded)
        block_bits_total == 2 ^ self.blk_log_size
        block_count == Len(bits) \div block_bits_total
    IN IF Len(bits) % block_bits_total # 0 THEN DecodeErr("Malformed", 0)
       ELSE LET blocks == Deinterleave(bits, block_bits_total, block_count)
                fixed == Collect([j \in 1..block_count |->
                             CorrectBlock(blocks[j], self.blk_log_size)])
                bad == {j \in 1..block_count : fixed[j] = << >>}
            IN IF bad # {}
               THEN DecodeErr("UncorrectableBlock",
                              (CHOOSE j \in bad : \A k \in bad : j <= k) - 1)
               ELSE ExtractMessage(PayloadOfAll(fixed, block_count), self.size_field_bits)

\* --------------------------------------------------------------------- Key
\* A Key is its field `data`, a sequence of bytes.  An operation that builds
\* a Key yields kind "Key" with the data, or kind "Panic".
KeyOk(data) == [kind |-> "Key", data |-> data]
KeyPanic == [kind |-> "Panic", data |-> << >>]

\* Key::new: assert!(data.len() > 0, ..); Self { data }
KeyNew(data) == IF Len(data) > 0 THEN KeyOk(data) ELSE KeyPanic

\* Vec::with_capacity(n): room for n elements, none of them present
VecWithCapacity(n) == << >>

\* slice::fill(value): every element the slice has is overwritten
SliceFill(slice, value) == [i \in 1..Len(slice) |-> value]

\* Rng::fill_bytes(slice): every element the slice has is overwritten with
\* the next byte the generator gives
RngFillBytes(slice, rng) == [i \in 1..Len(slice) |-> rng[i]]

\* Key::random: the vector is created with capacity key_len, filled with
\* zeros through fill, then with random bytes through a slice of it
KeyRandom(key_len, rng) ==
    LET data == SliceFill(VecWithCapacity(key_len), 0)
    IN KeyOk(RngFillBytes(data, rng))

\* Key::len
KeyLen(key) == Len(key)

\* <Key as FromIterator<u8>>::from_iter: collect, then Key::new
KeyFromIter(iter) == KeyNew(iter)

\* <Key as Clone>::clone
KeyClone(key) == KeyOk(key)

\* <&Key as Add>::add: both keys chained and collected into a Key
KeyAdd(a, b) == KeyFromIter(a \o b)

\* !b on u8
NotU8(b) == 255 - b

\* <&Key as Not>::not
KeyNot(a) == KeyFromIter([i \in 1..Len(a) |-> NotU8(a[i])])

\* a | b and a ^ b on u8
BitOrU8(x, y) == x + y - BitAnd(x, y)
BitXorU8(x, y) == x + y - 2 * BitAnd(x, y)

\* <&Key as BitAnd>::bitand: assert_eq! on the lengths, zip, map, from_iter
KeyBitAnd(a, b) ==
    IF KeyLen(a) # KeyLen(b) THEN KeyPanic
    ELSE KeyFromIter([i \in 1..Len(a) |-> BitAnd(a[i], b[i])])

\* <&Key as BitOr>::bitor
KeyBitOr(a, b) ==
    IF KeyLen(a) # KeyLen(b) THEN KeyPanic
    ELSE KeyFromIter([i \in 1..Len(a) |-> BitOrU8(a[i], b[i])])

\* <&Key as BitXor>::bitxor
KeyBitXor(a, b) ==
    IF KeyLen(a) # KeyLen(b) THEN KeyPanic
    ELSE KeyFromIter([i \in 1..Len(a) |-> BitXorU8(a[i], b[i])])

\* ----------------------------------------------------------------- Vigener
\* u8::wrapping_add, u8::wrapping_sub
wrapping_add(x, y) == (x + y) % 256
wrapping_sub(x, y) == (x + 256 - y) % 256

\* data.zip(key.iter().cycle()): cycling a key without bytes gives nothing,
\* so the zip ends at once
ZipCycle(data, key) ==
    IF Len(key) = 0 THEN << >>
    ELSE [i \in 1..Len(data) |-> <<data[i], key[((i - 1) % Len(key)) + 1]>>]

\* <Vigener as Encrypt>::encrypt
VigenerEncrypt(key, data_in) ==
    LET zipped == ZipCycle(data_in, key)
    IN [i \in 1..Len(zipped) |-> wrapping_add(zipped[i][1], zipped[i][2])]

\* <Vigener as Decrypt>::decrypt
VigenerDecrypt(key, encrypted_data) ==
    LET zipped == ZipCycle(encrypted_data, key)
    IN [i \in 1..Len(zipped) |-> wrapping_sub(zipped[i][1], zipped[i][2])]

\* ------------------------------------------------------------ state machine
VARIABLES
    pc,               \* "start", "new", "encrypted", "wire", "decoded"
    overflow_checks,  \* build profile: do arithmetic overflows panic?
    args,             \* the arguments HammingECC::new was called with
    self,             \* what HammingECC::new returned
    data_to_encrypt,  \* the message handed to try_encrypt
    result,           \* what try_encrypt returned
    wire,             \* the encoded bytes on their way to the decoder
    flipped,          \* flat bit positions of wire the channel has flipped
    decoded,          \* what decode returned
    keys,             \* the data of every Key built so far, in order
    key_op,           \* the last Key operation: name, length asked, panicked?
    vig_pc,           \* "none", "new", "encrypted", "decrypted"
    vigener,          \* the field `key` of the Vigener instance
    vig_data,         \* the bytes handed to Vigener::encrypt
    vig_encrypted,    \* what Vigener::encrypt returned
    vig_decrypted     \* what Vigener::decrypt returned

hamming_vars == <<pc, overflow_checks, args, self, data_to_encrypt, result,
                  wire, flipped, decoded>>

key_vars == <<keys, key_op, vig_pc, vigener, vig_data, vig_encrypted,
              vig_decrypted>>

vars == <<pc, overflow_checks, args, self, data_to_encrypt, result, wire,
          flipped, decoded, keys, key_op, vig_pc, vigener, vig_data,
          vig_encrypted, vig_decrypted>>

\* no Key operation has run yet
NoKeyOp == [name |-> "none", key_len |-> 0, panicked |-> FALSE]

Init ==
    /\ pc = "start"
    /\ overflow_checks \in BOOLEAN
    /\ args = <<0, 0>>
    /\ self = NoCodec
    /\ data_to_encrypt = << >>
    /\ result = NoResult
    /\ wire = << >>
    /\ flipped = {}
    /\ decoded = NoDecode
    /\ keys = << >>
    /\ key_op = NoKeyOp
    /\ vig_pc = "none"
    /\ vigener = << >>
    /\ vig_data = << >>
    /\ vig_encrypted = << >>
    /\ vig_decrypted = << >>

\* let codec = HammingECC::new(blk_log_size, size_field_bits)
New(blk_log_size, size_field_bits) ==
    /\ pc = "start"
    /\ args' = <<blk_log_size, size_field_bits>>
    /\ self' = HammingNew(blk_log_size, size_field_bits)
    /\ pc' = "new"
    /\ UNCHANGED <<overflow_checks, data_to_encrypt, result, wire, flipped, decoded>>
    /\ UNCHANGED key_vars

\* codec.try_encrypt(message), on a codec that was constructed
Encrypt(message) ==
    /\ pc = "new"
    /\ self.some
    /\ data_to_encrypt' = message
    /\ result' = TryEncrypt(overflow_checks, self, message)
    /\ pc' = "encrypted"
    /\ UNCHANGED <<overflow_checks, args, self, wire, flipped, decoded>>
    /\ UNCHANGED key_vars

\* the caller puts the returned bytes on the channel
Send ==
    /\ pc = "encrypted"
    /\ result.kind = "Ok"
    /\ wire' = result.bytes
    /\ pc' = "wire"
    /\ UNCHANGED <<overflow_checks, args, self, data_to_encrypt, result, flipped, decoded>>
    /\ UNCHANGED key_vars

\* the bytes with the bits at the flat positions S inverted
FlipBits(bytes, S) ==
    LET bits == FromBytes(bytes)
    IN ToBytes(Collect([f \in 1..Len(bits) |->
                           IF (f - 1) \in S THEN ~bits[f] ELSE bits[f]]))

\* the block a flat position of the stream belongs to
BlockOfFlat(f) == f % Len(result.blocks)

\* the channel flips one bit
FlipBit(f) ==
    /\ pc = "wire"
    /\ flipped = {}
    /\ f \in 0..(8 * Len(wire) - 1)
    /\ wire' = FlipBits(wire, {f})
    /\ flipped' = {f}
    /\ UNCHANGED <<pc, overflow_checks, args, self, data_to_encrypt, result, decoded>>
    /\ UNCHANGED key_vars

\* the channel flips a second bit, of the block it has already hit
FlipSecondBit(f) ==
    /\ pc = "wire"
    /\ Cardinality(flipped) = 1
    /\ f \in 0..(8 * Len(wire) - 1)
    /\ f \notin flipped
    /\ \E g \in flipped : BlockOfFlat(g) = BlockOfFlat(f)
    /\ wire' = FlipBits(wire, {f})
    /\ flipped' = flipped \cup {f}
    /\ UNCHANGED <<pc, overflow_checks, args, self, data_to_encrypt, result, decoded>>
    /\ UNCHANGED key_vars

\* the channel corrupts a contiguous run of block_count bits starting at s
Burst(s) ==
    /\ pc = "wire"
    /\ flipped = {}
    /\ Len(result.blocks) >= 1
    /\ s \in 0..(8 * Len(wire) - Len(result.blocks))
    /\ LET run == s..(s + Len(result.blocks) - 1)
       IN /\ wire' = FlipBits(wire, run)
          /\ flipped' = run
    /\ UNCHANGED <<pc, overflow_checks, args, self, data_to_encrypt, result, decoded>>
    /\ UNCHANGED key_vars

\* the receiver decodes what arrived
DecodeWire ==
    /\ pc = "wire"
    /\ decoded' = Decode(self, wire)
    /\ pc' = "decoded"
    /\ UNCHANGED <<overflow_checks, args, self, data_to_encrypt, result, wire, flipped>>
    /\ UNCHANGED key_vars

\* the largest number of bits a stream of the model holds
MaxWireBits == 8 * (8 * MaxMsgLen + 65)

Next ==
    \/ \E b \in BlkLogSizes, l \in SizeFieldBits : New(b, l)
    \/ \E m \in Messages : Encrypt(m)
    \/ Send
    \/ \E f \in 0..MaxWireBits : FlipBit(f)
    \/ \E f \in 0..MaxWireBits : FlipSecondBit(f)
    \/ \E s \in 0..MaxWireBits : Burst(s)
    \/ DecodeWire

Spec == Init /\ [][Next]_vars

\* ------------------------------------------------- Key and Vigener in use
\* most keys a run builds, and most bytes a caller puts into one
MaxKeys == 3
MaxKeyLen == 2

\* the bytes callers and the random number generator choose from
KeyBytes == {1, 255}

\* byte vectors a caller may hand to Key::new or collect into a Key
KeyData == UNION {[1..n -> KeyBytes] : n \in 0..MaxKeyLen}

\* what the generator would write into a slice of up to MaxKeyLen bytes
RngOutputs == [1..MaxKeyLen -> KeyBytes]

\* a Key operation returns r: its Key, when it gives one, joins keys
KeyOpReturns(name, key_len, r) ==
    /\ keys' = IF r.kind = "Key" THEN Append(keys, Collect(r.data)) ELSE keys
    /\ key_op' = [name |-> name, key_len |-> key_len,
                  panicked |-> r.kind = "Panic"]
    /\ UNCHANGED <<vig_pc, vigener, vig_data, vig_encrypted, vig_decrypted>>
    /\ UNCHANGED hamming_vars

\* Key::new(data)
CallKeyNew(data) ==
    /\ Len(keys) < MaxKeys
    /\ KeyOpReturns("new", Len(data), KeyNew(data))

\* Key::random(key_len, rng), key_len a NonZeroUsize
CallKeyRandom(key_len, rng) ==
    /\ Len(keys) < MaxKeys
    /\ key_len >= 1
    /\ KeyOpReturns("random", key_len, KeyRandom(key_len, rng))

\* iter.collect::<Key>()
CallKeyFromIter(iter) ==
    /\ Len(keys) < MaxKeys
    /\ KeyOpReturns("from_iter", Len(iter), KeyFromIter(iter))

\* keys[i].clone()
CallKeyClone(i) ==
    /\ Len(keys) < MaxKeys
    /\ i \in 1..Len(keys)
    /\ KeyOpReturns("clone", Len(keys[i]), KeyClone(keys[i]))

\* &keys[i] + &keys[j]
CallKeyAdd(i, j) ==
    /\ Len(keys) < MaxKeys
    /\ i \in 1..Len(keys) /\ j \in 1..Len(keys)
    /\ KeyOpReturns("add", Len(keys[i]) + Len(keys[j]), KeyAdd(keys[i], keys[j]))

\* !&keys[i]
CallKeyNot(i) ==
    /\ Len(keys) < MaxKeys
    /\ i \in 1..Len(keys)
    /\ KeyOpReturns("not", Len(keys[i]), KeyNot(keys[i]))

\* &keys[i] & &keys[j]
CallKeyBitAnd(i, j) ==
    /\ Len(keys) < MaxKeys
    /\ i \in 1..Len(keys) /\ j \in 1..Len(keys)
    /\ KeyOpReturns("bitand", Len(keys[i]), KeyBitAnd(keys[i], keys[j]))

\* &keys[i] | &keys[j]
CallKeyBitOr(i, j) ==
    /\ Len(keys) < MaxKeys
    /\ i \in 1..Len(keys) /\ j \in 1..Len(keys)
    /\ KeyOpReturns("bitor", Len(keys[i]), KeyBitOr(keys[i], keys[j]))

\* &keys[i] ^ &keys[j]
CallKeyBitXor(i, j) ==
    /\ Len(keys) < MaxKeys
    /\ i \in 1..Len(keys) /\ j \in 1..Len(keys)
    /\ KeyOpReturns("bitxor", Len(keys[i]), KeyBitXor(keys[i], keys[j]))

\* let cipher = Vigener::new(keys[i].clone())
VigenerNew(i) ==
    /\ vig_pc = "none"
    /\ i \in 1..Len(keys)
    /\ vigener' = keys[i]
    /\ vig_pc' = "new"
    /\ UNCHANGED <<keys, key_op, vig_data, vig_encrypted, vig_decrypted>>
    /\ UNCHANGED hamming_vars

\* let encrypted: Vec<u8> = cipher.encrypt(message)
CallVigenerEncrypt(message) ==
    /\ vig_pc = "new"
    /\ vig_data' = message
    /\ vig_encrypted' = Collect(VigenerEncrypt(vigener, message))
    /\ vig_pc' = "encrypted"
    /\ UNCHANGED <<keys, key_op, vigener, vig_decrypted>>
    /\ UNCHANGED hamming_vars

\* let decrypted: Vec<u8> = cipher.decrypt(encrypted)
CallVigenerDecrypt ==
    /\ vig_pc = "encrypted"
    /\ vig_decrypted' = Collect(VigenerDecrypt(vigener, vig_encrypted))
    /\ vig_pc' = "decrypted"
    /\ UNCHANGED <<keys, key_op, vigener, vig_data, vig_encrypted>>
    /\ UNCHANGED hamming_vars

KeyNext ==
    \/ \E data \in KeyData : CallKeyNew(data)
    \/ \E key_len \in 1..MaxKeyLen, rng \in RngOutputs : CallKeyRandom(key_len, rng)
    \/ \E iter \in KeyData : CallKeyFromIter(iter)
    \/ \E i \in 1..MaxKeys : CallKeyClone(i)
    \/ \E i, j \in 1..MaxKeys : CallKeyAdd(i, j)
    \/ \E i \in 1..MaxKeys : CallKeyNot(i)
    \/ \E i, j \in 1..MaxKeys : CallKeyBitAnd(i, j)
    \/ \E i, j \in 1..MaxKeys : CallKeyBitOr(i, j)
    \/ \E i, j \in 1..MaxKeys : CallKeyBitXor(i, j)
    \/ \E i \in 1..MaxKeys : VigenerNew(i)
    \/ \E message \in Messages : CallVigenerEncrypt(message)
    \/ CallVigenerDecrypt

KeySpec == Init /\ [][KeyNext]_vars

\* ------------------------------------------------------------------- tests
\* tests::into_ok: the five (codec, input, expected output) cases
into_ok ==
    /\ TryEncrypt(TRUE, HammingNew(4, 3), <<150, 54>>).bytes = <<136, 39, 135, 40>>
    /\ TryEncrypt(TRUE, HammingNew(4, 4), <<90, 129>>).bytes = <<72, 24, 72, 178>>
    /\ TryEncrypt(TRUE, HammingNew(3, 4), <<114, 104>>).bytes = <<168, 238, 30, 43, 200>>
    /\ TryEncrypt(TRUE, HammingNew(4, 3), << >>).bytes = <<0, 0>>
    /\ TryEncrypt(TRUE, HammingNew(3, 5), << >>).bytes = <<0, 0>>

\* ------------------------------------------------------ properties, shared
\* try_encrypt has returned (or panicked) in this state
Encrypted == pc \in {"encrypted", "wire", "decoded"}

\* len(message) < 2^length_field_bits; every message of the model is shorter
\* than 2^31 bytes
LenBelowCapacity ==
    self.size_field_bits >= 31
    \/ Len(data_to_encrypt) < 2 ^ self.size_field_bits

\* neither `1 << size_field_bits` nor `1 << blk_log_size` overflows usize
ShiftSafe == self.blk_log_size < UsizeBits /\ self.size_field_bits < UsizeBits

\* the two flipped positions lie in one block
FlippedInOneBlock ==
    /\ Cardinality(flipped) = 2
    /\ \A f, g \in flipped : BlockOfFlat(f) = BlockOfFlat(g)

\* the flipped positions are a contiguous run of block_count bits
FlippedIsRun ==
    /\ flipped # {}
    /\ Cardinality(flipped) = Len(result.blocks)
    /\ \E s \in flipped : flipped = s..(s + Len(result.blocks) - 1)

\* number of positions at which two blocks differ
Distance(x, y) == Cardinality({p \in 1..Len(x) : x[p] # y[p]})

\* ------------------------------------------------------------------- C1
\* C1 (round trip): whenever try_encrypt is called on an accepted
\* configuration with a message shorter than 2^length_field_bits, it returns
\* Ok and decoding the returned bytes gives back Ok(message).
C1_RoundTrip ==
    (pc = "encrypted" /\ LenBelowCapacity)
        => /\ result.kind = "Ok"
           /\ Decode(self, result.bytes) = DecodeOk(data_to_encrypt)

\* the round trip where no shift overflows
RoundTripShiftSafe == ShiftSafe => C1_RoundTrip

\* ------------------------------------------------------------------- C2
\* C2 (single-bit tolerance): after exactly one bit of an encoded stream has
\* been flipped, decode returns Ok(message).
C2_SingleBitTolerance ==
    (pc = "decoded" /\ Cardinality(flipped) = 1)
        => decoded = DecodeOk(data_to_encrypt)

\* single-bit tolerance where no shift overflows
SingleBitToleranceShiftSafe == ShiftSafe => C2_SingleBitTolerance

\* ------------------------------------------------------------------- C3
\* C3 (double-bit detection): after exactly two distinct bits of one block
\* have been flipped, decode returns Err(UncorrectableBlock) naming that
\* block.
C3_DoubleBitDetection ==
    (pc = "decoded" /\ FlippedInOneBlock)
        => \E f \in flipped :
               decoded = DecodeErr("UncorrectableBlock", BlockOfFlat(f))

\* two flips in one block, one of them its position-0 global parity bit,
\* were decoded
C3_Witness ==
    /\ pc = "decoded"
    /\ FlippedInOneBlock
    /\ \E f \in flipped : f < Len(result.blocks)
    /\ decoded.kind = "UncorrectableBlock"

\* ------------------------------------------------------------------- C4
\* C4 (capacity boundary): try_encrypt returns the message-too-large error
\* exactly when len(message) >= 2^length_field_bits; the error reports
\* 2^length_field_bits - 1 and the actual size; a message of exactly
\* 2^length_field_bits - 1 bytes succeeds.
C4_CapacityBoundary ==
    pc = "encrypted"
        => /\ (result.kind = "Err") <=> ~LenBelowCapacity
           /\ result.kind = "Err"
                => /\ self.size_field_bits < 31
                   /\ result.max = (2 ^ self.size_field_bits) - 1
                   /\ result.actual = Len(data_to_encrypt)
           /\ (self.size_field_bits < 31
               /\ Len(data_to_encrypt) = (2 ^ self.size_field_bits) - 1)
                => result.kind = "Ok"

\* the capacity boundary where no shift overflows
CapacityBoundaryShiftSafe == ShiftSafe => C4_CapacityBoundary

\* ------------------------------------------------------------------- C5
\* C5 (totality): on every configuration HammingECC::new accepts and every
\* message, try_encrypt returns Ok or the message-too-large error; it never
\* panics.
C5_Totality ==
    pc = "encrypted" => result.kind \in {"Ok", "Err"}

\* ------------------------------------------------------------------- C6
\* C6 (construction validation): new(blk_log_size, size_field_bits) returns
\* Some codec holding exactly the two arguments if blk_log_size >= 3 and
\* size_field_bits >= 2, and None for every other pair.
C6_ConstructionValidation ==
    pc # "start"
        => IF args[1] >= 3 /\ args[2] >= 2
           THEN /\ self.some
                /\ self.blk_log_size = args[1]
                /\ self.size_field_bits = args[2]
           ELSE ~self.some

\* new was called at the lower boundary (3, 2) and returned a codec
C6_Witness ==
    pc = "new" /\ args = <<3, 2>> /\ self.some

\* ------------------------------------------------------------------- C7
\* C7 (output size): for a message that passes the size check, try_encrypt
\* emits ceil((len * 8 + length_field_bits) / (2^b - b - 1)) >= 1 blocks and
\* returns exactly block_count * 2^b bits.
C7_OutputSize ==
    (pc = "encrypted" /\ result.kind # "Err")
        => /\ result.kind = "Ok"
           /\ Len(result.blocks) >= 1
           /\ LET bits == Len(data_to_encrypt) * 8 + self.size_field_bits
                  per == (2 ^ self.blk_log_size) - self.blk_log_size - 1
              IN /\ (Len(result.blocks) - 1) * per < bits
                 /\ bits <= Len(result.blocks) * per
           /\ 8 * Len(result.bytes) = Len(result.blocks) * (2 ^ self.blk_log_size)

\* the output size where no shift overflows
OutputSizeShiftSafe == ShiftSafe => C7_OutputSize

\* ------------------------------------------------------------------- C8
\* C8 (transmission layout): in the returned bytes, read as a flat bit
\* sequence most significant bit first, the bit at flat index
\* i * block_count + j is bit i of block j.
C8_TransmissionLayout ==
    (Encrypted /\ result.kind = "Ok")
        => LET n == Len(result.blocks)
               flat == FromBytes(result.bytes)
           IN \A j \in 0..(n - 1) :
                  \A i \in 0..(Len(result.blocks[j + 1]) - 1) :
                      /\ i * n + j < Len(flat)
                      /\ flat[i * n + j + 1] = result.blocks[j + 1][i + 1]

\* the first case of tests::into_ok was encrypted: two blocks of sixteen bits
C8_Witness ==
    /\ pc = "encrypted"
    /\ self.blk_log_size = 4 /\ self.size_field_bits = 3
    /\ data_to_encrypt = <<150, 54>>
    /\ result.bytes = <<136, 39, 135, 40>>
    /\ Len(result.blocks) = 2

\* ------------------------------------------------------------------- C9
\* C9 (burst): after a contiguous run of block_count bits of the encoded
\* stream has been corrupted, every block differs from the block that was
\* built in at most one position, the decision table restores every block,
\* and decode returns what it returns for the untouched stream.
C9_BurstCorrectable ==
    (pc \in {"wire", "decoded"} /\ FlippedIsRun)
        => LET n == Len(result.blocks)
               received == Deinterleave(FromBytes(wire), Len(result.blocks[1]), n)
           IN /\ \A j \in 1..n :
                    /\ Distance(received[j], result.blocks[j]) <= 1
                    /\ CorrectBlock(received[j], self.blk_log_size) = result.blocks[j]
              /\ pc = "decoded" => decoded = Decode(self, result.bytes)

\* a run of two or more bits that does not start at a block-0 bit was
\* corrupted and the stream decoded to the message
C9_Witness ==
    /\ pc = "decoded"
    /\ FlippedIsRun
    /\ Len(result.blocks) >= 2
    /\ \A f \in flipped : (\A g \in flipped : f <= g) => BlockOfFlat(f) # 0
    /\ data_to_encrypt # << >>
    /\ decoded = DecodeOk(data_to_encrypt)

\* ------------------------------------------------------------------- C10
\* C10 (payload layout): the non-parity positions of the blocks, in block
\* order and increasing position order, hold length_field_bits bits spelling
\* len(message) most significant bit first, then the message's bytes most
\* significant bit first, then only zeros.
C10_PayloadLayout ==
    (Encrypted /\ result.kind = "Ok")
        => LET l == self.size_field_bits
               n == 8 * Len(data_to_encrypt)
               payload == PayloadOfAll(result.blocks, Len(result.blocks))
           IN /\ Len(payload) >= l + n
              /\ \A k \in 1..l :
                    payload[k] = TestBit(Len(data_to_encrypt), l - k)
              /\ SubSeq(payload, l + 1, l + n) = FromBytes(data_to_encrypt)
              /\ \A k \in (l + n + 1)..Len(payload) : ~payload[k]

\* the payload layout where no shift overflows
PayloadLayoutShiftSafe == ShiftSafe => C10_PayloadLayout

\* ------------------------------------------------------------------- C11
\* C11 (empty message): on every accepted configuration try_encrypt of the
\* empty message returns Ok with ceil(length_field_bits / block_bits_data)
\* blocks, at least one, all of whose bits are zero, and every returned byte
\* is 0x00.
C11_EmptyMessage ==
    (pc = "encrypted" /\ data_to_encrypt = << >>)
        => /\ result.kind = "Ok"
           /\ Len(result.blocks) >= 1
           /\ LET per == (2 ^ self.blk_log_size) - self.blk_log_size - 1
              IN /\ (Len(result.blocks) - 1) * per < self.size_field_bits
                 /\ self.size_field_bits <= Len(result.blocks) * per
           /\ \A j \in 1..Len(result.blocks) :
                  \A p \in 1..Len(result.blocks[j]) : ~result.blocks[j][p]
           /\ result.bytes # << >>
           /\ \A k \in 1..Len(result.bytes) : result.bytes[k] = 0

\* the empty message where no shift overflows
EmptyMessageShiftSafe == ShiftSafe => C11_EmptyMessage

\* ------------------------------------------------------------------- C13
\* C13 (parity groups): in every block try_encrypt builds, the bit at each
\* power-of-two position p = 2^i, i < blk_log_size, equals the XOR of the
\* bits at all other positions whose index has bit i set.
C13_ParityGroups ==
    (Encrypted /\ result.kind = "Ok")
        => \A j \in 1..Len(result.blocks) :
               \A i \in 0..(self.blk_log_size - 1) :
                   LET block == result.blocks[j]
                       p == 2 ^ i
                       others == {q \in 0..(Len(block) - 1) :
                                      q # p /\ (q \div p) % 2 = 1}
                   IN /\ p < Len(block)
                      /\ block[p + 1] = XorOver(block, others)

\* a message was encrypted into a block whose last position and at least one
\* power-of-two position are set
C13_Witness ==
    /\ pc = "encrypted"
    /\ result.kind = "Ok"
    /\ data_to_encrypt # << >>
    /\ \E j \in 1..Len(result.blocks) :
           /\ result.blocks[j][Len(result.blocks[j])]
           /\ \E i \in 0..(self.blk_log_size - 1) : result.blocks[j][(2 ^ i) + 1]

\* ------------------------------------------------------------------- C14
\* C14 (global parity): in every block try_encrypt builds, the bit at
\* position 0 equals the XOR of the bits at all other positions, so the XOR
\* of the whole block is 0, and the decision table of decode finds the block
\* clean (overall parity matches, syndrome 0).
C14_GlobalParity ==
    (Encrypted /\ result.kind = "Ok")
        => \A j \in 1..Len(result.blocks) :
               LET block == result.blocks[j]
               IN /\ block[1] = XorOver(block, 1..(Len(block) - 1))
                  /\ ~OverallParity(block)
                  /\ Syndrome(block, self.blk_log_size) = 0
                  /\ CorrectBlock(block, self.blk_log_size) = block

\* a message was encrypted into a block whose position-0 bit is set and that
\* has an odd number of power-of-two positions set
C14_Witness ==
    /\ pc = "encrypted"
    /\ result.kind = "Ok"
    /\ \E j \in 1..Len(result.blocks) :
           /\ result.blocks[j][1]
           /\ XorOver(result.blocks[j],
                      {p \in 1..(Len(result.blocks[j]) - 1) : count_ones(p) = 1})


\* ---------------------------------------------------------------- C12
\* helper: the bytes of the Key the last operation returned
LastKey == keys[Len(keys)]

\* C12: after Key::random(key_len, rng) has returned, for a non-zero
\* key_len, the Key it returned has len() equal to key_len, hence at least 1.
C12_RandomKeyLength ==
    (key_op.name = "random" /\ key_op.key_len >= 1)
        => /\ ~key_op.panicked
           /\ Len(keys) >= 1
           /\ KeyLen(LastKey) = key_op.key_len
           /\ KeyLen(LastKey) >= 1

\* ---------------------------------------------------------------- C15
\* C15: every Key obtained through Key::new, Key::random, collect, clone,
\* +, !, &, | and ^ has len() >= 1, and an operation that would have built
\* a Key without bytes has panicked instead of returning one.
C15_KeyNonEmpty ==
    /\ \A i \in 1..Len(keys) : KeyLen(keys[i]) >= 1
    /\ (key_op.name \in {"new", "from_iter"} /\ key_op.key_len = 0)
           => key_op.panicked

\* helper: every operation other than Key::random, and clone applied to what
\* it returned, gives a Key with at least one byte or panics
KeyNonEmptyExceptRandom ==
    [][(Len(keys') > Len(keys) /\ key_op'.name \notin {"random", "clone"})
           => KeyLen(keys'[Len(keys')]) >= 1]_vars

\* ---------------------------------------------------------------- C16
\* helper: encrypt added key[i mod len(key)] to byte i modulo 256
EncryptedByFormula ==
    \A i \in 1..Len(vig_data) :
        vig_encrypted[i] = (vig_data[i] + vigener[((i - 1) % Len(vigener)) + 1]) % 256

\* C16: for every Vigener instance and every message, encrypt(m) has the
\* length of m and is m with key[i mod len(key)] added to byte i modulo 256,
\* and decrypt(encrypt(m)) is m.
C16_VigenerRoundTrip ==
    /\ vig_pc \in {"encrypted", "decrypted"}
           => /\ Len(vig_encrypted) = Len(vig_data)
              /\ EncryptedByFormula
    /\ vig_pc = "decrypted" => vig_decrypted = vig_data

\* helper: the same for the instances whose key has at least one byte
VigenerRoundTripNonEmptyKey == Len(vigener) >= 1 => C16_VigenerRoundTrip

====
